---- MODULE Spec2Model ----
(***************************************************************************)
(* Abaqus .inp -> LS-DYNA DUALCESE .k converter (main_Convert.py and its   *)
(* earlier draft Untitled-1.py).  The run is a sequential batch: open the  *)
(* input, read it line by line into five collections, open the output,     *)
(* write the blocks, close.  One action per step of that batch.            *)
(***************************************************************************)
EXTENDS Integers, Sequences, FiniteSets, TLC

\* Longest input file explored, in lines.
MaxLines == 4

\* Python's None, for the three name pointers.
None == "<None>"

(***************************************************************************)
(* Text.  A token is the text between separators: an integer literal, a    *)
(* decimal literal (value m * 10^e, written with a point or an exponent,   *)
(* accepted by float() but not by int()), or any other word.  A field is   *)
(* the text between two commas: optional leading blanks and its            *)
(* whitespace-separated tokens.                                            *)
(***************************************************************************)
IntTok(n) == [k |-> "int", m |-> n, e |-> 0, s |-> ""]
FltTok(m, e) == [k |-> "flt", m |-> m, e |-> e, s |-> ""]
StrTok(s) == [k |-> "str", m |-> 0, e |-> 0, s |-> s]

Fld(t) == [lead |-> FALSE, toks |-> <<t>>]
SpFld(t) == [lead |-> TRUE, toks |-> <<t>>]

RECURSIVE Pow10(_)
Pow10(n) == IF n = 0 THEN 1 ELSE 10 * Pow10(n - 1)

\* int(text): defined exactly when the field is one integer literal.
IsInt(f) == Len(f.toks) = 1 /\ f.toks[1].k = "int"
IntOf(f) == f.toks[1].m

\* float(text): one integer or decimal literal.
IsFloat(f) == Len(f.toks) = 1 /\ f.toks[1].k \in {"int", "flt"}
FloatOf(f) == f.toks[1].m * Pow10(f.toks[1].e)

\* line.replace(',', ' ').split(): every token of every field, in order.
RECURSIVE SplitAll(_)
SplitAll(fields) ==
    IF fields = <<>> THEN <<>> ELSE Head(fields).toks \o SplitAll(Tail(fields))

RECURSIVE AllIntToks(_)
AllIntToks(toks) ==
    toks = <<>> \/ (Head(toks).k = "int" /\ AllIntToks(Tail(toks)))

RECURSIVE TokInts(_)
TokInts(toks) ==
    IF toks = <<>> THEN <<>> ELSE <<Head(toks).m>> \o TokInts(Tail(toks))

\* str.lower() and str.upper() on the names the input alphabet uses.
Lower(s) ==
    CASE s = "K1a" -> "k1a"
      [] s = "Fluid1" -> "fluid1"
      [] s = "FaceK1A" -> "facek1a"
      [] s = "Foo" -> "foo"
      [] s = "*Node" -> "*node"
      [] s = "*Element" -> "*element"
      [] s = "*Nset" -> "*nset"
      [] s = "*Elset" -> "*elset"
      [] s = "*Surface" -> "*surface"
      [] s = "*Heading" -> "*heading"
      [] OTHER -> s

Upper(s) ==
    CASE s = "k1a" -> "K1A"
      [] s = "fluid1" -> "FLUID1"
      [] s = "facek1a" -> "FACEK1A"
      [] s = "foo" -> "FOO"
      [] OTHER -> s

\* str.startswith(prefix) and "key=" in text: every keyword and attribute key
\* of the input alphabet is exactly one of the words the reader looks for, or
\* shares no prefix with any of them.
StartsWith(s, prefix) == s = prefix
Contains(key, word) == key = word

(***************************************************************************)
(* config.py                                                               *)
(***************************************************************************)
abq_surf_def ==
    [f \in {"S1", "S2", "S3", "S4", "S5", "S6"} |->
        CASE f = "S1" -> <<1, 2, 3, 4>>
          [] f = "S2" -> <<5, 8, 7, 6>>
          [] f = "S3" -> <<1, 5, 6, 2>>
          [] f = "S4" -> <<2, 6, 7, 3>>
          [] f = "S5" -> <<3, 7, 8, 4>>
          [] f = "S6" -> <<4, 8, 5, 1>>]

nodeset_ssid ==
    [n \in {"K1A", "K2A", "K1B", "K2B"} |->
        CASE n = "K1A" -> 999 [] n = "K2A" -> 888
          [] n = "K1B" -> 777 [] n = "K2B" -> 666]

segmentset_ssid ==
    [n \in {"FACEK1A", "FACEK2A", "FACEK1B", "FACEK2B", "OUTERS", "ELSURF"} |->
        CASE n = "FACEK1A" -> 555 [] n = "FACEK2A" -> 444
          [] n = "FACEK1B" -> 333 [] n = "FACEK2B" -> 222
          [] n = "OUTERS" -> 111 [] n = "ELSURF" -> 1111]

elementset_ssid ==
    [n \in {"FLUID1", "FLUID2"} |->
        CASE n = "FLUID1" -> 2222 [] n = "FLUID2" -> 3333]

(***************************************************************************)
(* The input alphabet: the lines a file may hold.                          *)
(***************************************************************************)
Blank == [t |-> "blank", kw |-> "", key |-> "", val |-> "", fields |-> <<>>]
Comment == [t |-> "comment", kw |-> "", key |-> "", val |-> "", fields |-> <<>>]
Kw(kw, key, val) ==
    [t |-> "kw", kw |-> kw, key |-> key, val |-> val, fields |-> <<>>]
Data(fields) ==
    [t |-> "data", kw |-> "", key |-> "", val |-> "", fields |-> fields]

KeywordLines ==
    { Kw("*Node", "", ""),
      Kw("*Element", "type=", "C3D8R"),
      Kw("*Nset", "nset=", "K1a"),
      Kw("*Nset", "nset=", "Foo"),
      Kw("*Nset", "", ""),
      Kw("*Elset", "elset=", "Fluid1"),
      Kw("*Elset", "elset=", "Foo"),
      Kw("*Elset", "", ""),
      Kw("*Surface", "name=", "FaceK1A"),
      Kw("*Surface", "name=", "Foo"),
      Kw("*Surface", "", ""),
      Kw("*Heading", "", "") }

\* "7, 11, 12, 13, 14, 15, 16, 17, 18, 19"
Line10 == Data(<<Fld(IntTok(7)), SpFld(IntTok(11)), SpFld(IntTok(12)),
                 SpFld(IntTok(13)), SpFld(IntTok(14)), SpFld(IntTok(15)),
                 SpFld(IntTok(16)), SpFld(IntTok(17)), SpFld(IntTok(18)),
                 SpFld(IntTok(19))>>)
\* "9,8,7,6,5,4,3,2,1"
Line9 == Data(<<Fld(IntTok(9)), Fld(IntTok(8)), Fld(IntTok(7)), Fld(IntTok(6)),
                Fld(IntTok(5)), Fld(IntTok(4)), Fld(IntTok(3)), Fld(IntTok(2)),
                Fld(IntTok(1))>>)
\* "2, 1234567.0, 25.0, 0"
LineFloat == Data(<<Fld(IntTok(2)), SpFld(FltTok(1234567, 0)),
                    SpFld(FltTok(25, 0)), SpFld(IntTok(0))>>)
\* "1,2,2,1234565"
Line4 == Data(<<Fld(IntTok(1)), Fld(IntTok(2)), Fld(IntTok(2)),
                Fld(IntTok(1234565))>>)
\* "1234565 1 2"
LineWs == Data(<<[lead |-> FALSE,
                  toks |-> <<IntTok(1234565), IntTok(1), IntTok(2)>>]>>)
\* "7,S2"
LineSurf == Data(<<Fld(IntTok(7)), Fld(StrTok("S2"))>>)
\* "7, S1"
LineSurfSp == Data(<<Fld(IntTok(7)), SpFld(StrTok("S1"))>>)

\* "7,s1"
LineSurfLower == Data(<<Fld(IntTok(7)), Fld(StrTok("s1"))>>)

DataLines == {Line9, Line10, LineFloat, Line4, LineWs, LineSurf, LineSurfSp,
              LineSurfLower}

Lines == {Blank, Comment} \cup KeywordLines \cup DataLines

(***************************************************************************)
(* Python containers.  nodes and elements are read back in sorted-key      *)
(* order, so a function suffices; nsets, elsets and surfaces are iterated  *)
(* in insertion order, so they are sequences of [name, items].             *)
(***************************************************************************)
Put(d, key, v) == [x \in (DOMAIN d) \cup {key} |-> IF x = key THEN v ELSE d[x]]

HasName(d, name) == \E i \in 1..Len(d) : d[i].name = name

SetDefault(d, name) ==
    IF HasName(d, name) THEN d ELSE Append(d, [name |-> name, items |-> <<>>])

Extend(d, name, xs) ==
    [i \in 1..Len(d) |->
        IF d[i].name = name THEN [d[i] EXCEPT !.items = @ \o xs] ELSE d[i]]

Get(d, name) == d[CHOOSE i \in 1..Len(d) : d[i].name = name].items

VARIABLES
    script,              \* which of the two scripts runs
    pc,                  \* position in main()
    nread,               \* lines read so far
    line,                \* the line being processed
    reading_nodes, reading_elements,
    current_nset_name, current_elset_name, current_surf_name,
    nodes, elements, nsets, elsets, surfaces,
    raised,              \* the exception that ended the run, "" if none
    in_file, out_file,   \* "unopened", "open" or "closed"
    output,              \* the lines written to the output file
    wi                   \* index of the set block write_k is at

parser == <<reading_nodes, reading_elements,
            current_nset_name, current_elset_name, current_surf_name>>
model == <<nodes, elements, nsets, elsets, surfaces>>
vars == <<script, pc, nread, line, parser, model, raised,
          in_file, out_file, output, wi>>

\* The reader's locals as one value.
P == [reading_nodes |-> reading_nodes, reading_elements |-> reading_elements,
      current_nset_name |-> current_nset_name,
      current_elset_name |-> current_elset_name,
      current_surf_name |-> current_surf_name,
      nodes |-> nodes, elements |-> elements, nsets |-> nsets,
      elsets |-> elsets, surfaces |-> surfaces, raised |-> ""]

\* name = rest.strip().upper() when the key is in the lowered line, else None.
AttrName(l, key) ==
    IF Contains(Lower(l.key), key) THEN Upper(Lower(l.val)) ELSE None

Truthy(name) == name # None /\ name # ""

(***************************************************************************)
(* main_Convert.py, parse_inp: a keyword line.                             *)
(***************************************************************************)
\* NsetStart without the two resets of the other pointers.
NsetStart_keepOthers(p, name) ==
    IF Truthy(name)
    THEN [p EXCEPT !.current_nset_name = name,
                   !.nsets = SetDefault(@, name)]
    ELSE [p EXCEPT !.current_nset_name = None]

NsetStart(p, name) ==
    IF Truthy(name)
    THEN [p EXCEPT !.current_nset_name = name,
                   !.nsets = SetDefault(@, name),
                   !.current_elset_name = None,
                   !.current_surf_name = None]
    ELSE [p EXCEPT !.current_nset_name = None]

ElsetStart(p, name) ==
    IF Truthy(name)
    THEN [p EXCEPT !.current_elset_name = name,
                   !.elsets = SetDefault(@, name),
                   !.current_nset_name = None,
                   !.current_surf_name = None]
    ELSE [p EXCEPT !.current_elset_name = None]

SurfaceStart(p, name) ==
    IF Truthy(name)
    THEN [p EXCEPT !.current_surf_name = name,
                   !.surfaces = SetDefault(@, name),
                   !.current_elset_name = None,
                   !.current_nset_name = None]
    ELSE p

SectionReset(p) == [p EXCEPT !.reading_nodes = FALSE, !.reading_elements = FALSE]

\* Keyword with *Node and *Element also closing the active node/element set.
Keyword_closeSets(p, l) ==
    LET lower_kw == Lower(l.kw)
        p0 == SectionReset(p)
    IN  IF StartsWith(lower_kw, "*node")
        THEN [p0 EXCEPT !.reading_nodes = TRUE,
                        !.current_nset_name = None, !.current_elset_name = None]
        ELSE IF StartsWith(lower_kw, "*element")
        THEN [p0 EXCEPT !.reading_elements = TRUE,
                        !.current_nset_name = None, !.current_elset_name = None]
        ELSE IF StartsWith(lower_kw, "*nset")
             THEN NsetStart(p0, AttrName(l, "nset="))
        ELSE IF StartsWith(lower_kw, "*elset")
             THEN ElsetStart(p0, AttrName(l, "elset="))
        ELSE IF StartsWith(lower_kw, "*surface")
             THEN SurfaceStart(p0, AttrName(l, "name="))
        ELSE p0

Keyword(p, l) ==
    LET lower_kw == Lower(l.kw)
        p0 == SectionReset(p)
    IN  IF StartsWith(lower_kw, "*node") THEN [p0 EXCEPT !.reading_nodes = TRUE]
        ELSE IF StartsWith(lower_kw, "*element")
             THEN [p0 EXCEPT !.reading_elements = TRUE]
        ELSE IF StartsWith(lower_kw, "*nset")
             THEN NsetStart(p0, AttrName(l, "nset="))
        ELSE IF StartsWith(lower_kw, "*elset")
             THEN ElsetStart(p0, AttrName(l, "elset="))
        ELSE IF StartsWith(lower_kw, "*surface")
             THEN SurfaceStart(p0, AttrName(l, "name="))
        ELSE p0

(***************************************************************************)
(* main_Convert.py, parse_inp: a data line.  Each part runs only if no     *)
(* earlier part raised.                                                    *)
(***************************************************************************)
Raise(p, exc) == [p EXCEPT !.raised = exc]

NodeData(p, parts) ==
    IF Len(parts) >= 4
    THEN IF IsInt(parts[1]) /\ \A i \in 2..4 : IsFloat(parts[i])
         THEN [p EXCEPT !.nodes = Put(@, IntOf(parts[1]),
                   <<FloatOf(parts[2]), FloatOf(parts[3]), FloatOf(parts[4])>>)]
         ELSE Raise(p, "ValueError")
    ELSE p

\* ElementData with the slice parts[1:8].
ElementData_shortSlice(p, parts) ==
    IF Len(parts) >= 9
    THEN IF \A i \in 1..9 : IsInt(parts[i])
         THEN [p EXCEPT !.elements = Put(@, IntOf(parts[1]),
                   [i \in 1..7 |-> IntOf(parts[i + 1])])]
         ELSE [p EXCEPT !.raised = "ValueError"]
    ELSE p

ElementData(p, parts) ==
    IF Len(parts) >= 9
    THEN IF \A i \in 1..9 : IsInt(parts[i])
         THEN [p EXCEPT !.elements = Put(@, IntOf(parts[1]),
                   [i \in 1..8 |-> IntOf(parts[i + 1])])]
         ELSE Raise(p, "ValueError")
    ELSE p

SectionData(p, parts) ==
    IF p.reading_nodes THEN NodeData(p, parts)
    ELSE IF p.reading_elements THEN ElementData(p, parts)
    ELSE p

NsetData(p, parts) ==
    IF p.raised = "" /\ p.current_nset_name # None
    THEN IF AllIntToks(SplitAll(parts))
         THEN [p EXCEPT !.nsets = Extend(@, p.current_nset_name,
                                         TokInts(SplitAll(parts)))]
         ELSE Raise(p, "ValueError")
    ELSE p

ElsetData(p, parts) ==
    IF p.raised = "" /\ p.current_elset_name # None
    THEN IF AllIntToks(SplitAll(parts))
         THEN [p EXCEPT !.elsets = Extend(@, p.current_elset_name,
                                          TokInts(SplitAll(parts)))]
         ELSE Raise(p, "ValueError")
    ELSE p

SurfaceData(p, parts) ==
    IF p.raised = "" /\ p.current_surf_name # None
    THEN IF Len(parts) = 2 /\ IsInt(parts[1])
         THEN [p EXCEPT !.surfaces = Extend(@, p.current_surf_name,
                   <<[elm |-> IntOf(parts[1]), face |-> parts[2]]>>)]
         ELSE Raise(p, "ValueError")
    ELSE p

DataLine(p, l) ==
    SurfaceData(ElsetData(NsetData(SectionData(p, l.fields), l.fields),
                          l.fields), l.fields)

(***************************************************************************)
(* Untitled-1.py, parse_inp.                                               *)
(***************************************************************************)
DraftKeyword(p, l) ==
    LET lower_kw == Lower(l.kw)
        p0 == SectionReset(p)
        nset_name == AttrName(l, "nset=")
        elset_name == AttrName(l, "elset=")
        surf_name == AttrName(l, "name=")
    IN  IF StartsWith(lower_kw, "*node")
        THEN [p0 EXCEPT !.reading_nodes = TRUE,
                        !.current_nset_name = None, !.current_elset_name = None]
        ELSE IF StartsWith(lower_kw, "*element")
        THEN [p0 EXCEPT !.reading_elements = TRUE,
                        !.current_nset_name = None, !.current_elset_name = None]
        ELSE IF StartsWith(lower_kw, "*nset")
        THEN IF Truthy(nset_name)
             THEN [p0 EXCEPT !.current_nset_name = nset_name,
                             !.nsets = SetDefault(@, nset_name)]
             ELSE [p0 EXCEPT !.current_nset_name = None]
        ELSE IF StartsWith(lower_kw, "*elset")
        THEN IF Truthy(elset_name)
             THEN [p0 EXCEPT !.current_elset_name = elset_name,
                             !.elsets = SetDefault(@, elset_name)]
             ELSE [p0 EXCEPT !.current_elset_name = None]
        ELSE IF StartsWith(lower_kw, "*surface")
        THEN IF Truthy(surf_name)
             THEN [p0 EXCEPT !.surfaces = SetDefault(@, surf_name)]
             ELSE p0
        ELSE p0

DraftElementData(p, parts) ==
    IF Len(parts) > 1
    THEN IF \A i \in 1..Len(parts) : IsInt(parts[i])
         THEN [p EXCEPT !.elements = Put(@, IntOf(parts[1]),
                   [i \in 1..(Len(parts) - 1) |-> IntOf(parts[i + 1])])]
         ELSE Raise(p, "ValueError")
    ELSE p

DraftSectionData(p, parts) ==
    IF p.reading_nodes THEN NodeData(p, parts)
    ELSE IF p.reading_elements THEN DraftElementData(p, parts)
    ELSE p

DraftDataLine(p, l) ==
    ElsetData(NsetData(DraftSectionData(p, l.fields), l.fields), l.fields)

(***************************************************************************)
(* The run.                                                                *)
(***************************************************************************)
\* A handle that nothing closes.
WithExit_leak(handle) == handle

\* Leaving a `with open(...)` block, normally or by an exception.
WithExit(handle) == "closed"

Init ==
    /\ script \in {"main_Convert", "Untitled-1"}
    /\ pc = "start"
    /\ nread = 0
    /\ line = Blank
    /\ reading_nodes = FALSE /\ reading_elements = FALSE
    /\ current_nset_name = None /\ current_elset_name = None
    /\ current_surf_name = None
    /\ nodes = <<>> /\ elements = <<>>
    /\ nsets = <<>> /\ elsets = <<>> /\ surfaces = <<>>
    /\ raised = ""
    /\ in_file = "unopened" /\ out_file = "unopened"
    /\ output = <<>>
    /\ wi = 1

\* with open(inp_file, 'r') as f
OpenInput ==
    /\ pc = "start"
    /\ in_file' = "open"
    /\ pc' = "parse"
    /\ UNCHANGED <<script, nread, line, parser, model, raised, out_file, output, wi>>

\* The reader's locals after a line, or the exception leaving parse_inp.
Store(p) ==
    /\ reading_nodes' = p.reading_nodes
    /\ reading_elements' = p.reading_elements
    /\ current_nset_name' = p.current_nset_name
    /\ current_elset_name' = p.current_elset_name
    /\ current_surf_name' = p.current_surf_name
    /\ nodes' = p.nodes /\ elements' = p.elements
    /\ nsets' = p.nsets /\ elsets' = p.elsets /\ surfaces' = p.surfaces
    /\ raised' = p.raised
    /\ IF p.raised = ""
       THEN pc' = "parse" /\ in_file' = in_file
       ELSE pc' = "error" /\ in_file' = WithExit(in_file)

Reading(l) ==
    /\ pc = "parse"
    /\ nread < MaxLines
    /\ nread' = nread + 1
    /\ line' = l
    /\ UNCHANGED <<script, out_file, output, wi>>

\* if not line_stripped or line_stripped.startswith('**'): continue
ReadSkipped ==
    \E l \in {Blank, Comment} :
        /\ Reading(l)
        /\ Store(P)

ReadKeyword ==
    \E l \in KeywordLines :
        /\ Reading(l)
        /\ Store(IF script = "main_Convert" THEN Keyword(P, l)
                                            ELSE DraftKeyword(P, l))

ReadData ==
    \E l \in DataLines :
        /\ Reading(l)
        /\ Store(IF script = "main_Convert" THEN DataLine(P, l)
                                            ELSE DraftDataLine(P, l))

\* The loop ends, the with block closes the input, parse_inp returns its five
\* collections; its other locals are gone.
EndOfInput ==
    /\ pc = "parse"
    /\ in_file' = WithExit(in_file)
    /\ pc' = "parsed"
    /\ nread' = 0 /\ line' = Blank
    /\ reading_nodes' = FALSE /\ reading_elements' = FALSE
    /\ current_nset_name' = None /\ current_elset_name' = None
    /\ current_surf_name' = None
    /\ UNCHANGED <<script, model, raised, out_file, output, wi>>

\* Untitled-1.py calls write_k, which it does not define.
DraftNameError ==
    /\ pc = "parsed"
    /\ script = "Untitled-1"
    /\ raised' = "NameError"
    /\ pc' = "error"
    /\ UNCHANGED <<script, nread, line, parser, model, in_file, out_file, output, wi>>

(***************************************************************************)
(* main_Convert.py, write_k.                                               *)
(***************************************************************************)
chunk_size == 8
pid == 1

\* Digits of a positive integer.
RECURSIVE NumDigits(_)
NumDigits(v) == IF v < 10 THEN 1 ELSE 1 + NumDigits(v \div 10)

\* FormatG rounding a tie upwards.
FormatG_halfUp(v) ==
    IF v < Pow10(6) THEN IntTok(v)
    ELSE LET k == NumDigits(v) - 6
             q == v \div Pow10(k)
             r == v % Pow10(k)
             half == Pow10(k) \div 2
             m == IF r >= half THEN q + 1 ELSE q
         IN  IF m = Pow10(6) THEN FltTok(Pow10(5), k + 1) ELSE FltTok(m, k)

\* "{:g}".format(v) for an integral v >= 0: at most 6 significant digits,
\* rounded half to even; below 10^6 the digits themselves, otherwise a
\* mantissa and an exponent.
FormatG(v) ==
    IF v < Pow10(6) THEN IntTok(v)
    ELSE LET k == NumDigits(v) - 6
             q == v \div Pow10(k)
             r == v % Pow10(k)
             half == Pow10(k) \div 2
             m == IF r > half \/ (r = half /\ q % 2 = 1) THEN q + 1 ELSE q
         IN  IF m = Pow10(6) THEN FltTok(Pow10(5), k + 1) ELSE FltTok(m, k)

\* "{:d}".format(n), str(n)
FormatD(n) == IntTok(n)

OutLine(sec, kind, text, fields) ==
    [sec |-> sec, kind |-> kind, text |-> text, fields |-> fields]

\* ", ".join(texts): the first field bare, the others after a blank.
JoinCommaSpace(toks) ==
    [i \in 1..Len(toks) |-> IF i = 1 THEN Fld(toks[i]) ELSE SpFld(toks[i])]

Range(seq) == {seq[i] : i \in 1..Len(seq)}

Min(S) == CHOOSE x \in S : \A y \in S : x <= y

\* sorted(S)
RECURSIVE Sorted(_)
Sorted(S) == IF S = {} THEN <<>> ELSE <<Min(S)>> \o Sorted(S \ {Min(S)})

\* sorted(items) without set(): duplicates stay.
RECURSIVE SortedSet_keepDuplicates(_)
SortedSet_keepDuplicates(items) ==
    IF items = <<>> THEN <<>>
    ELSE LET i == CHOOSE i \in 1..Len(items) :
                      \A j \in 1..Len(items) : items[i] <= items[j]
         IN  <<items[i]>>
             \o SortedSet_keepDuplicates(SubSeq(items, 1, i - 1)
                                         \o SubSeq(items, i + 1, Len(items)))

\* sorted(set(items))
SortedSet(items) == Sorted(Range(items))

\* [seq[i:i+n] for i in range(0, len(seq), n)]
RECURSIVE Chunks(_, _)
Chunks(seq, n) ==
    IF seq = <<>> THEN <<>>
    ELSE IF Len(seq) <= n THEN <<seq>>
    ELSE <<SubSeq(seq, 1, n)>> \o Chunks(SubSeq(seq, n + 1, Len(seq)), n)

ChunkLines(sec, ids) ==
    LET chunks == Chunks(ids, chunk_size)
    IN  [c \in 1..Len(chunks) |->
            OutLine(sec, "data", "",
                    JoinCommaSpace([i \in 1..Len(chunks[c]) |->
                                       FormatD(chunks[c][i])]))]

NodeLine(nid) ==
    OutLine("node", "data", "",
            JoinCommaSpace(<<FormatD(nid), FormatG(nodes[nid][1]),
                             FormatG(nodes[nid][2]), FormatG(nodes[nid][3]),
                             FormatG(0), FormatG(0)>>))

NodeBlock ==
    LET ids == Sorted(DOMAIN nodes)
    IN  <<OutLine("node", "directive", "*DUALCESE_NODE3D", <<>>)>>
        \o [i \in 1..Len(ids) |-> NodeLine(ids[i])]

ElementLine(eid) ==
    OutLine("element", "data", "",
            JoinCommaSpace(<<FormatD(eid), FormatD(pid)>>
                           \o [i \in 1..Len(elements[eid]) |->
                                  FormatD(elements[eid][i])]))

RECURSIVE ElementLines(_)
ElementLines(ids) ==
    IF ids = <<>> THEN <<>>
    ELSE (IF Len(elements[Head(ids)]) = 8
          THEN <<ElementLine(Head(ids))>> ELSE <<>>)
         \o ElementLines(Tail(ids))

ElementBlock ==
    <<OutLine("element", "directive", "*DUALCESE_ELE3D", <<>>)>>
    \o ElementLines(Sorted(DOMAIN elements))

\* What one pass of a set loop wrote, and the exception that ended it if any.
Wrote(lines, exc) == [lines |-> lines, raised |-> exc]

IdLine(sec, curid) == OutLine(sec, "id", "", <<SpFld(FormatD(curid))>>)

\* The lines of a block in the order the code writes them; the ID lookup
\* raises KeyError for a name the table does not hold.
ListBlock(sec, directive, table, entry) ==
    LET head == <<OutLine(sec, "comment", entry.name, <<>>),
                  OutLine(sec, "directive", directive, <<>>)>>
    IN  IF entry.name \in DOMAIN table
        THEN Wrote(head \o <<IdLine(sec, table[entry.name])>>
                        \o ChunkLines(sec, SortedSet(entry.items)), "")
        ELSE Wrote(head, "KeyError")

NodeSetBlock(entry) ==
    ListBlock("nodeset", "*DUALCESE_NODESET", nodeset_ssid, entry)

ElementSetBlock(entry) ==
    ListBlock("elementset", "*DUALCESE_ELEMENTSET", elementset_ssid, entry)

\* IsFaceKey on the label with its leading blanks stripped.
IsFaceKey_stripped(faceid) ==
    /\ Len(faceid.toks) = 1
    /\ faceid.toks[1].k = "str"
    /\ faceid.toks[1].s \in DOMAIN abq_surf_def

\* The stored face label is a key of abq_surf_def only as the bare word.
IsFaceKey(faceid) ==
    /\ ~faceid.lead
    /\ Len(faceid.toks) = 1
    /\ faceid.toks[1].k = "str"
    /\ faceid.toks[1].s \in DOMAIN abq_surf_def

SurfaceLookupOk(elems, elmid, faceid) ==
    /\ elmid \in DOMAIN elems
    /\ IsFaceKey(faceid)
    /\ \A i \in 1..4 : abq_surf_def[faceid.toks[1].s][i] <= Len(elems[elmid])

\* get_surface_nodes returning the face's nodes in ascending order.
get_surface_nodes_sorted(elems, elmid, faceid) ==
    Sorted({elems[elmid][abq_surf_def[faceid.toks[1].s][i]] : i \in 1..4})

\* 1-based table positions to 0-based indices into the connectivity list;
\* Python's curelm[i] is the (i+1)-th entry here.
get_surface_nodes(elems, elmid, faceid) ==
    LET curelm == elems[elmid]
        table == abq_surf_def[faceid.toks[1].s]
        curnodes == [i \in 1..Len(table) |-> table[i] - 1]
    IN  [i \in 1..Len(curnodes) |-> curelm[curnodes[i] + 1]]

SurfaceLine(curnodes) ==
    OutLine("segmentset", "data", "",
            <<Fld(FormatD(curnodes[1])), SpFld(FormatD(curnodes[2])),
              SpFld(FormatD(curnodes[3])), SpFld(FormatD(curnodes[4])),
              Fld(FltTok(0, 0)), Fld(FltTok(0, 0)),
              Fld(FltTok(0, 0)), Fld(FltTok(0, 0))>>)

RECURSIVE SurfaceLines(_)
SurfaceLines(surf_list) ==
    IF surf_list = <<>> THEN Wrote(<<>>, "")
    ELSE LET surf == Head(surf_list)
         IN  IF SurfaceLookupOk(elements, surf.elm, surf.face)
             THEN LET rest == SurfaceLines(Tail(surf_list))
                  IN  Wrote(<<SurfaceLine(get_surface_nodes(elements, surf.elm,
                                                            surf.face))>>
                            \o rest.lines, rest.raised)
             ELSE Wrote(<<>>, "KeyError")

SurfaceBlock(entry) ==
    LET head == <<OutLine("segmentset", "comment", entry.name, <<>>),
                  OutLine("segmentset", "directive", "*DUALCESE_SEGMENTSET", <<>>)>>
    IN  IF entry.name \in DOMAIN segmentset_ssid
        THEN LET body == SurfaceLines(entry.items)
             IN  Wrote(head \o <<IdLine("segmentset", segmentset_ssid[entry.name])>>
                            \o body.lines, body.raised)
        ELSE Wrote(head, "KeyError")

\* After with the element-set loop before the surface loop.
After_elsetsFirst(stage) ==
    IF stage = "write_nsets" THEN "write_elsets"
    ELSE IF stage = "write_elsets" THEN "write_surfaces"
    ELSE "write_end"

\* The loops of write_k, in the order of the code.
After(stage) ==
    IF stage = "write_nsets" THEN "write_surfaces"
    ELSE IF stage = "write_surfaces" THEN "write_elsets"
    ELSE "write_end"

LoopOver(stage) ==
    IF stage = "write_nsets" THEN nsets
    ELSE IF stage = "write_surfaces" THEN surfaces
    ELSE elsets

\* The first loop from `stage` on with a pass to run, else the footer.
RECURSIVE NextLoop(_)
NextLoop(stage) ==
    IF stage = "write_end" \/ LoopOver(stage) # <<>> THEN stage
    ELSE NextLoop(After(stage))

\* with open(k_file, 'w') as f
OpenOutput ==
    /\ pc = "parsed"
    /\ script = "main_Convert"
    /\ out_file' = "open"
    /\ output' = <<>>
    /\ pc' = "write_nodes"
    /\ UNCHANGED <<script, nread, line, parser, model, raised, in_file, wi>>

WriteNodes ==
    /\ pc = "write_nodes"
    /\ output' = output \o NodeBlock
    /\ pc' = "write_elements"
    /\ UNCHANGED <<script, nread, line, parser, model, raised, in_file, out_file, wi>>

WriteElements ==
    /\ pc = "write_elements"
    /\ output' = output \o ElementBlock
    /\ pc' = NextLoop("write_nsets")
    /\ wi' = 1
    /\ UNCHANGED <<script, nread, line, parser, model, raised, in_file, out_file>>

\* One pass of a set loop: the lines it wrote, then either the next pass, the
\* next loop, or the exception leaving the with block.
Pass(stage, sets, w) ==
    /\ pc = stage
    /\ output' = output \o w.lines
    /\ raised' = w.raised
    /\ IF w.raised # ""
       THEN pc' = "error" /\ wi' = wi /\ out_file' = WithExit(out_file)
       ELSE /\ out_file' = out_file
            /\ IF wi < Len(sets)
               THEN pc' = stage /\ wi' = wi + 1
               ELSE pc' = NextLoop(After(stage)) /\ wi' = 1
    /\ UNCHANGED <<script, nread, line, parser, model, in_file>>

WriteNodeSet ==
    /\ pc = "write_nsets"
    /\ Pass("write_nsets", nsets, NodeSetBlock(nsets[wi]))

WriteSurface ==
    /\ pc = "write_surfaces"
    /\ Pass("write_surfaces", surfaces, SurfaceBlock(surfaces[wi]))

WriteElementSet ==
    /\ pc = "write_elsets"
    /\ Pass("write_elsets", elsets, ElementSetBlock(elsets[wi]))

WriteEnd ==
    /\ pc = "write_end"
    /\ output' = output \o <<OutLine("end", "directive", "*END", <<>>)>>
    /\ out_file' = WithExit(out_file)
    /\ pc' = "done"
    /\ UNCHANGED <<script, nread, line, parser, model, raised, in_file, wi>>

Next ==
    \/ OpenInput \/ ReadSkipped \/ ReadKeyword \/ ReadData \/ EndOfInput
    \/ DraftNameError
    \/ OpenOutput \/ WriteNodes \/ WriteElements
    \/ WriteNodeSet \/ WriteSurface \/ WriteElementSet \/ WriteEnd

Spec == Init /\ [][Next]_vars

(***************************************************************************)
(* Reading the output back.                                                *)
(***************************************************************************)
Finished == pc \in {"done", "error"}

\* The last line of the block whose comment line is output[c].
RECURSIVE BlockLast(_, _)
BlockLast(c, j) ==
    IF /\ j < Len(output)
       /\ output[j + 1].sec = output[c].sec
       /\ output[j + 1].kind # "comment"
    THEN BlockLast(c, j + 1) ELSE j

BlockDataLines(c) ==
    SelectSeq(SubSeq(output, c, BlockLast(c, c)), LAMBDA l : l.kind = "data")

BlockHasId(c) == \E j \in c..BlockLast(c, c) : output[j].kind = "id"

RECURSIVE LineInts(_)
LineInts(ls) ==
    IF ls = <<>> THEN <<>>
    ELSE TokInts(SplitAll(Head(ls).fields)) \o LineInts(Tail(ls))

SecRank(sec) ==
    CASE sec = "node" -> 1 [] sec = "element" -> 2 [] sec = "nodeset" -> 3
      [] sec = "segmentset" -> 4 [] sec = "elementset" -> 5 [] sec = "end" -> 6

IdTable(sec) ==
    CASE sec = "nodeset" -> nodeset_ssid
      [] sec = "segmentset" -> segmentset_ssid
      [] sec = "elementset" -> elementset_ssid

Count(kind, text) ==
    Cardinality({i \in 1..Len(output) :
                    output[i].kind = kind /\ output[i].text = text})

(***************************************************************************)
(* C1.  A node set, surface or element set whose name is absent from its   *)
(* ID table makes the writer abort before any line of that name's block is *)
(* written: the output never holds the comment line (nor any later line)   *)
(* of a block whose name the table lacks.                                  *)
(***************************************************************************)
C1_NoLineOfUnknownName ==
    \A i \in 1..Len(output) :
        output[i].kind = "comment" =>
            output[i].text \in DOMAIN IdTable(output[i].sec)

(***************************************************************************)
(* C2.  The conversion is all-or-nothing: a run that ends with an error    *)
(* has written nothing to the output file.                                 *)
(***************************************************************************)
C2_AllOrNothing == pc = "error" => output = <<>>

(***************************************************************************)
(* C3.  The output lines are in section order (node block, element block,  *)
(* node-set blocks, surface blocks, element-set blocks, terminator); a     *)
(* completed write starts with the node directive, holds the node and      *)
(* element directives and *END exactly once each, and ends with *END; an   *)
(* unfinished write holds no *END.                                         *)
(***************************************************************************)
C3_SectionOrder ==
    /\ \A i, j \in 1..Len(output) :
           i < j => SecRank(output[i].sec) <= SecRank(output[j].sec)
    /\ \A i \in 1..Len(output) :
           /\ output[i].text = "*DUALCESE_NODE3D" => output[i].sec = "node"
           /\ output[i].text = "*DUALCESE_ELE3D" => output[i].sec = "element"
           /\ output[i].text = "*DUALCESE_NODESET" => output[i].sec = "nodeset"
           /\ output[i].text = "*DUALCESE_SEGMENTSET" => output[i].sec = "segmentset"
           /\ output[i].text = "*DUALCESE_ELEMENTSET" => output[i].sec = "elementset"
           /\ output[i].text = "*END" <=> output[i].sec = "end"
    /\ pc = "done" =>
           /\ output[1].text = "*DUALCESE_NODE3D"
           /\ output[Len(output)].text = "*END"
           /\ Count("directive", "*DUALCESE_NODE3D") = 1
           /\ Count("directive", "*DUALCESE_ELE3D") = 1
           /\ Count("directive", "*END") = 1
           /\ Count("directive", "*DUALCESE_NODESET") = Len(nsets)
           /\ Count("directive", "*DUALCESE_SEGMENTSET") = Len(surfaces)
           /\ Count("directive", "*DUALCESE_ELEMENTSET") = Len(elsets)
    /\ pc # "done" => Count("directive", "*END") = 0

C3_Witness ==
    /\ pc = "done"
    /\ {output[i].sec : i \in 1..Len(output)} =
           {"node", "element", "nodeset", "segmentset", "elementset", "end"}
    /\ \E i \in 1..Len(output) : output[i].kind = "data"

(***************************************************************************)
(* Steps of the reader, seen from outside: the step that read line'.       *)
(***************************************************************************)
ReadStep == pc = "parse" /\ nread' = nread + 1

ElementsDataStep ==
    ReadStep /\ line'.t = "data" /\ reading_elements /\ ~reading_nodes

FirstNineAreInts(parts) == \A i \in 1..9 : IsInt(parts[i])

\* elements' is elements with conn stored under eid, nothing else touched.
Recorded(eid, conn) ==
    /\ DOMAIN elements' = DOMAIN elements \cup {eid}
    /\ elements'[eid] = conn
    /\ \A x \in DOMAIN elements \ {eid} : elements'[x] = elements[x]

(***************************************************************************)
(* C4 as claimed.  In both scripts a data line of the Elements section     *)
(* with at least 9 comma fields records, under the first field's ID,       *)
(* exactly the 8 entries of fields 2 to 9; a line with fewer than 9 fields *)
(* leaves the elements unchanged.                                          *)
(***************************************************************************)
C4_BothScripts ==
    [][ElementsDataStep =>
          LET parts == line'.fields
          IN  IF Len(parts) >= 9
              THEN FirstNineAreInts(parts) =>
                       Recorded(IntOf(parts[1]),
                                <<IntOf(parts[2]), IntOf(parts[3]), IntOf(parts[4]),
                                  IntOf(parts[5]), IntOf(parts[6]), IntOf(parts[7]),
                                  IntOf(parts[8]), IntOf(parts[9])>>)
              ELSE elements' = elements]_vars

(***************************************************************************)
(* C4 amended.  main_Convert.py does as claimed.  Untitled-1.py records    *)
(* every line of at least 2 fields, under the first field's ID, with all   *)
(* the fields after the first as connectivity (8 entries only for a line   *)
(* of exactly 9 fields); only a line of a single field records nothing.    *)
(***************************************************************************)
C4_PerScript ==
    [][ElementsDataStep =>
          LET parts == line'.fields
          IN  IF script = "main_Convert"
              THEN IF Len(parts) >= 9
                   THEN FirstNineAreInts(parts) =>
                            Recorded(IntOf(parts[1]),
                                     <<IntOf(parts[2]), IntOf(parts[3]),
                                       IntOf(parts[4]), IntOf(parts[5]),
                                       IntOf(parts[6]), IntOf(parts[7]),
                                       IntOf(parts[8]), IntOf(parts[9])>>)
                   ELSE elements' = elements
              ELSE IF Len(parts) >= 2
                   THEN (\A i \in 1..Len(parts) : IsInt(parts[i])) =>
                            /\ Len(elements'[IntOf(parts[1])]) = Len(parts) - 1
                            /\ Recorded(IntOf(parts[1]),
                                        [i \in 1..(Len(parts) - 1) |->
                                            IntOf(parts[i + 1])])
                   ELSE elements' = elements]_vars

C4_Witness ==
    /\ pc = "parse"
    /\ script = "main_Convert"
    /\ line = Line10
    /\ reading_elements
    /\ 7 \in DOMAIN elements
    /\ elements[7] = <<11, 12, 13, 14, 15, 16, 17, 18>>

(***************************************************************************)
(* C5.  For every node set and element set whose block was written past    *)
(* its ID line, the IDs of the block's data lines, concatenated, are       *)
(* strictly ascending and are exactly the IDs appended to that name by the *)
(* reader; every data line holds at most 8 IDs and every line but the last *)
(* exactly 8.                                                              *)
(***************************************************************************)
C5_SortedDeduplicated ==
    \A c \in 1..Len(output) :
        (/\ output[c].kind = "comment"
         /\ output[c].sec \in {"nodeset", "elementset"}
         /\ BlockHasId(c)) =>
            LET data == BlockDataLines(c)
                ids == LineInts(data)
                appended == Get(IF output[c].sec = "nodeset" THEN nsets
                                                              ELSE elsets,
                                output[c].text)
            IN  /\ \A i \in 1..(Len(ids) - 1) : ids[i] < ids[i + 1]
                /\ Range(ids) = Range(appended)
                /\ \A i \in 1..Len(data) :
                       /\ Len(data[i].fields) <= 8
                       /\ Len(data[i].fields) >= 1
                       /\ i < Len(data) => Len(data[i].fields) = 8

C5_Witness ==
    /\ pc = "done"
    /\ \E c \in 1..Len(output) :
           /\ output[c].kind = "comment"
           /\ output[c].sec \in {"nodeset", "elementset"}
           /\ Len(BlockDataLines(c)) = 2
           /\ LET appended == Get(IF output[c].sec = "nodeset" THEN nsets
                                                                ELSE elsets,
                                  output[c].text)
              IN  /\ Len(appended) > Cardinality(Range(appended))
                  /\ \E i \in 1..(Len(appended) - 1) :
                         appended[i] > appended[i + 1]

(***************************************************************************)
(* C6.  Every surface line written carries, as its first four fields and   *)
(* in the face table's order, the connectivity entries at the table's four *)
(* 1-based positions: for the k-th pair (e, L) of a surface, the k-th data *)
(* line of its block starts conn[p1], conn[p2], conn[p3], conn[p4] with    *)
(* conn the connectivity of e and [p1..p4] the table row of L; and         *)
(* conn = [10..17] with S1 gives [10, 11, 12, 13].                         *)
(***************************************************************************)
C6_FaceNodesInTableOrder ==
    /\ \A c \in 1..Len(output) :
           (output[c].kind = "comment" /\ output[c].sec = "segmentset") =>
               LET data == BlockDataLines(c)
                   pairs == Get(surfaces, output[c].text)
               IN  /\ Len(data) <= Len(pairs)
                   /\ \A k \in 1..Len(data) :
                          LET conn == elements[pairs[k].elm]
                              row == abq_surf_def[pairs[k].face.toks[1].s]
                          IN  /\ Len(conn) = 8
                              /\ Len(data[k].fields) = 8
                              /\ \A i \in 1..4 :
                                     /\ IsInt(data[k].fields[i])
                                     /\ IntOf(data[k].fields[i]) = conn[row[i]]
    /\ get_surface_nodes([e \in {1} |-> <<10, 11, 12, 13, 14, 15, 16, 17>>],
                         1, Fld(StrTok("S1"))) = <<10, 11, 12, 13>>
    /\ get_surface_nodes([e \in {1} |-> <<10, 11, 12, 13, 14, 15, 16, 17>>],
                         1, Fld(StrTok("S6"))) = <<13, 17, 14, 10>>

C6_Witness ==
    /\ pc = "done"
    /\ \E i \in 1..Len(output) :
           /\ output[i].sec = "segmentset"
           /\ output[i].kind = "data"
           /\ IntOf(output[i].fields[1]) = 15
           /\ IntOf(output[i].fields[2]) = 18
           /\ IntOf(output[i].fields[3]) = 17
           /\ IntOf(output[i].fields[4]) = 16

(***************************************************************************)
(* Re-reading the written node and element lines under the source grammar. *)
(***************************************************************************)
WrittenData(sec) ==
    SelectSeq(output, LAMBDA l : l.sec = sec /\ l.kind = "data")

NothingParsed ==
    [reading_nodes |-> FALSE, reading_elements |-> FALSE,
     current_nset_name |-> None, current_elset_name |-> None,
     current_surf_name |-> None,
     nodes |-> <<>>, elements |-> <<>>, nsets |-> <<>>, elsets |-> <<>>,
     surfaces |-> <<>>, raised |-> ""]

RECURSIVE ReparseNodes(_, _)
ReparseNodes(ls, p) ==
    IF ls = <<>> THEN p ELSE ReparseNodes(Tail(ls), NodeData(p, Head(ls).fields))

RECURSIVE ReparseElements(_, _)
ReparseElements(ls, p) ==
    IF ls = <<>> THEN p
    ELSE ReparseElements(Tail(ls), ElementData(p, Head(ls).fields))

BlocksWritten ==
    pc \in {"write_nsets", "write_surfaces", "write_elsets", "write_end", "done"}

(***************************************************************************)
(* C7 as claimed.  Re-parsing the written node and element lines with the  *)
(* reader's own rules (node: first field and the next three; element:      *)
(* first field and fields 2 to 9) gives back the same nodes and the same   *)
(* elements.                                                               *)
(***************************************************************************)
C7_RoundTrip ==
    BlocksWritten =>
        /\ ReparseNodes(WrittenData("node"), NothingParsed).nodes = nodes
        /\ ReparseElements(WrittenData("element"), NothingParsed).elements
               = elements

(***************************************************************************)
(* C7 amended.  The written node lines re-parse, by the reader's node      *)
(* rule, to the same node IDs with every coordinate rounded to 6           *)
(* significant digits, ties to the even digit (so unchanged when it has at *)
(* most 6).  The written element lines hold the element ID, the constant   *)
(* part ID 1, then the 8 connectivity entries: the same elements come back *)
(* from fields 1 and 3 to 10, while the reader's rule (fields 2 to 9)      *)
(* yields [1, n1 .. n7].                                                   *)
(***************************************************************************)
RoundedTo6(r, v) ==
    IF v < Pow10(6) THEN r = v
    ELSE LET unit == Pow10(NumDigits(v) - 6)
             dist == IF r >= v THEN r - v ELSE v - r
         IN  /\ r % unit = 0
             /\ 2 * dist <= unit
             /\ 2 * dist = unit => (r \div unit) % 2 = 0

C7_RoundTripUpToFormat ==
    BlocksWritten =>
        LET back == ReparseNodes(WrittenData("node"), NothingParsed)
            elems == WrittenData("element")
            reread == ReparseElements(elems, NothingParsed)
        IN  /\ back.raised = ""
            /\ DOMAIN back.nodes = DOMAIN nodes
            /\ \A n \in DOMAIN nodes : \A i \in 1..3 :
                   RoundedTo6(back.nodes[n][i], nodes[n][i])
            /\ Len(elems) = Cardinality(DOMAIN elements)
            /\ \A k \in 1..Len(elems) :
                   LET f == elems[k].fields
                   IN  /\ Len(f) = 10
                       /\ \A i \in 1..10 : IsInt(f[i])
                       /\ IntOf(f[1]) \in DOMAIN elements
                       /\ IntOf(f[2]) = 1
                       /\ \A i \in 1..8 :
                              IntOf(f[i + 2]) = elements[IntOf(f[1])][i]
                       /\ reread.elements[IntOf(f[1])] =
                              <<1>> \o SubSeq(elements[IntOf(f[1])], 1, 7)

C7_Witness ==
    /\ pc = "done"
    /\ \E n \in DOMAIN nodes : nodes[n][3] = 1234565
    /\ \E i \in 1..Len(output) :
           /\ output[i].sec = "node" /\ output[i].kind = "data"
           /\ output[i].fields[4].toks[1] = FltTok(123456, 1)
    /\ 7 \in DOMAIN elements

(***************************************************************************)
(* C8.  When the run has ended, normally or by an exception, no handle is  *)
(* open; the output is opened only after the input was closed, and never   *)
(* when the reader raised.                                                 *)
(***************************************************************************)
C8_HandlesClosed ==
    /\ Finished => in_file = "closed" /\ out_file \in {"unopened", "closed"}
    /\ pc = "done" => out_file = "closed"
    /\ out_file # "unopened" => in_file = "closed"
    /\ raised = "ValueError" => out_file = "unopened" /\ output = <<>>
    /\ in_file = "open" <=> pc = "parse"

C8_Witness ==
    /\ pc = "error"
    /\ raised = "KeyError"
    /\ in_file = "closed"
    /\ out_file = "closed"
    /\ output # <<>>

(***************************************************************************)
(* C9.  In main_Convert.py at most one of current_nset_name,               *)
(* current_elset_name, current_surf_name is set after any line, and a data *)
(* line is appended to at most one of the named collections.               *)
(***************************************************************************)
Active == {x \in {"nset", "elset", "surf"} :
              \/ x = "nset" /\ current_nset_name # None
              \/ x = "elset" /\ current_elset_name # None
              \/ x = "surf" /\ current_surf_name # None}

C9_OneActiveCollection ==
    [][(script = "main_Convert" /\ ReadStep) =>
          /\ Cardinality(Active') <= 1
          /\ Cardinality({x \in {"nset", "elset", "surf"} :
                             \/ x = "nset" /\ nsets' # nsets
                             \/ x = "elset" /\ elsets' # elsets
                             \/ x = "surf" /\ surfaces' # surfaces}) <= 1]_vars

C9_Witness ==
    /\ script = "main_Convert"
    /\ pc = "parse"
    /\ nsets # <<>> /\ surfaces # <<>>
    /\ current_elset_name # None
    /\ line.t = "data"
    /\ Get(elsets, current_elset_name) # <<>>

(***************************************************************************)
(* C10.  In main_Convert.py every directive leaves the section None,       *)
(* except *Node (Nodes) and *Element (Elements).                           *)
(***************************************************************************)
KeywordStep == script = "main_Convert" /\ ReadStep /\ line'.t = "kw"

SectionAfter(l) ==
    /\ reading_nodes' = (Lower(l.kw) = "*node")
    /\ reading_elements' = (Lower(l.kw) = "*element")

\* The line opens a named node set, element set or surface.
NamedStart(l) ==
    \/ Lower(l.kw) = "*nset" /\ l.key = "nset=" /\ l.val # ""
    \/ Lower(l.kw) = "*elset" /\ l.key = "elset=" /\ l.val # ""
    \/ Lower(l.kw) = "*surface" /\ l.key = "name=" /\ l.val # ""

PointersUnchanged ==
    UNCHANGED <<current_nset_name, current_elset_name, current_surf_name>>

(***************************************************************************)
(* C10 as claimed.  Every directive that is not a named node-set,          *)
(* element-set or surface start resets the section only: the three         *)
(* pointers and the five collections are unchanged.                        *)
(***************************************************************************)
C10_SectionResetOnly ==
    [][KeywordStep =>
          /\ SectionAfter(line')
          /\ ~NamedStart(line') => PointersUnchanged /\ UNCHANGED model]_vars

(***************************************************************************)
(* C10 amended.  A *Nset line without a name also closes the active node   *)
(* set, and a *Elset line without a name the active element set, leaving   *)
(* the other two pointers alone; every other directive that is not a       *)
(* named start, that is *Node, *Element, *Surface without a name and the   *)
(* unrecognized keywords, leaves the three pointers unchanged.  None of    *)
(* them changes a collection.                                              *)
(***************************************************************************)
C10_ResetOrCloseOwnSet ==
    [][KeywordStep =>
          /\ SectionAfter(line')
          /\ ~NamedStart(line') =>
                 /\ UNCHANGED model
                 /\ IF Lower(line'.kw) = "*nset"
                    THEN /\ current_nset_name' = None
                         /\ UNCHANGED <<current_elset_name, current_surf_name>>
                    ELSE IF Lower(line'.kw) = "*elset"
                    THEN /\ current_elset_name' = None
                         /\ UNCHANGED <<current_nset_name, current_surf_name>>
                    ELSE PointersUnchanged]_vars

C10_Witness ==
    /\ script = "main_Convert"
    /\ pc = "parse"
    /\ line = Kw("*Node", "", "")
    /\ reading_nodes
    /\ current_nset_name = "K1A"

(***************************************************************************)
(* C11.  main_Convert.py stores a surface pair's face label as the text    *)
(* after the comma, as it stands: leading blanks and letter case kept.     *)
(* write_k emits a line for a pair only if that text is exactly one of     *)
(* S1..S6 and the element ID is a key of elements; the first pair that is  *)
(* not ends the run with KeyError, no line written for it or after it, so  *)
(* a completed run has resolved every pair.                                *)
(***************************************************************************)
ExactFaceLabel(face) ==
    \E w \in {"S1", "S2", "S3", "S4", "S5", "S6"} :
        face = [lead |-> FALSE, toks |-> <<StrTok(w)>>]

Resolves(pair) == pair.elm \in DOMAIN elements /\ ExactFaceLabel(pair.face)

C11_VerbatimLabelExactLookup ==
    /\ (/\ script = "main_Convert" /\ pc = "parse" /\ line.t = "data"
        /\ current_surf_name # None) =>
           LET pairs == Get(surfaces, current_surf_name)
           IN  /\ Len(line.fields) = 2
               /\ pairs # <<>>
               /\ pairs[Len(pairs)] = [elm |-> IntOf(line.fields[1]),
                                       face |-> line.fields[2]]
    /\ \A c \in 1..Len(output) :
           (/\ output[c].kind = "comment" /\ output[c].sec = "segmentset"
            /\ BlockHasId(c)) =>
               LET pairs == Get(surfaces, output[c].text)
                   written == Len(BlockDataLines(c))
               IN  /\ written <= Len(pairs)
                   /\ \A k \in 1..written : Resolves(pairs[k])
                   /\ written < Len(pairs) =>
                          /\ ~Resolves(pairs[written + 1])
                          /\ pc = "error" /\ raised = "KeyError"
                          /\ BlockLast(c, c) = Len(output)
    /\ pc = "done" =>
           \A i \in 1..Len(surfaces) : \A k \in 1..Len(surfaces[i].items) :
               Resolves(surfaces[i].items[k])

C11_Witness ==
    /\ pc = "error" /\ raised = "KeyError"
    /\ 7 \in DOMAIN elements
    /\ \E c \in 1..Len(output) :
           /\ output[c].kind = "comment" /\ output[c].sec = "segmentset"
           /\ BlockHasId(c)
           /\ BlockDataLines(c) = <<>>
           /\ Get(surfaces, output[c].text) =
                  <<[elm |-> 7, face |-> SpFld(StrTok("S1"))]>>

====
